---- MODULE Spec2Model ----
(***************************************************************************)
(* A state-machine model of clip/simple_tokenizer.py: the byte-level BPE    *)
(* tokenizer (SimpleTokenizer) with its construction from a merge artifact, *)
(* the merge engine bpe, and the encode / decode pipeline.                  *)
(*                                                                         *)
(* A Python str is modelled as a sequence of Unicode code points (naturals),*)
(* a bytes object as a sequence of naturals below 256, a tuple or list as a *)
(* sequence, a dict as a function and a set as a set.                       *)
(***************************************************************************)
EXTENDS Integers, Sequences, FiniteSets, TLC

(***************************************************************************)
(* Generic sequence helpers (Python list / str primitives).                *)
(***************************************************************************)
Range(a, b) == [i \in 1..(b - a + 1) |-> a + i - 1]

ToSet(s) == {s[i] : i \in DOMAIN s}

Min(a, b) == IF a <= b THEN a ELSE b

\* ''.join(parts): concatenation of a sequence of strings
RECURSIVE Flatten(_)
Flatten(parts) ==
    IF parts = <<>> THEN <<>> ELSE Head(parts) \o Flatten(Tail(parts))

\* s[lo:] in 1-based indexing: the elements from position lo on
From(s, lo) == SubSeq(s, lo, Len(s))

\* s.startswith(p, at) in 1-based indexing
StartsAt(s, p, at) ==
    /\ at + Len(p) - 1 <= Len(s)
    /\ \A k \in 1..Len(p) : s[at + k - 1] = p[k]

(***************************************************************************)
(* String literals of the program, as code points.                         *)
(***************************************************************************)
\* '</w>'
EOW == <<60, 47, 119, 62>>

\* '<|startoftext|>'
SOT == <<60, 124, 115, 116, 97, 114, 116, 111, 102, 116, 101, 120, 116, 124, 62>>

\* '<|endoftext|>'
EOT == <<60, 124, 101, 110, 100, 111, 102, 116, 101, 120, 116, 124, 62>>

\* ' '
SP == 32

(***************************************************************************)
(* bytes_to_unicode(): the byte -> printable code point table.             *)
(***************************************************************************)
ByteCount == 256

NiceBytes == Range(33, 126) \o Range(161, 172) \o Range(174, 255)

\* the bytes the loop over range(2**8) appends to bs, in the order it meets
\* them: those not in bs, ascending
OtherBytes ==
    LET nice == ToSet(NiceBytes)
        rest == {b \in 0..(ByteCount - 1) : b \notin nice}
    IN  [n \in 1..Cardinality(rest) |->
            CHOOSE b \in rest : Cardinality({x \in rest : x < b}) = n - 1]

\* bs after the loop
BtuBs == NiceBytes \o OtherBytes

\* cs after the loop, before chr(): the n-th appended byte gets 2**8 + n
BtuCs == NiceBytes \o [n \in 1..Len(OtherBytes) |-> ByteCount + n - 1]

\* dict(zip(bs, cs)) for sequences without repeated keys
ZipDict(ks, vs) == [k \in ToSet(ks) |-> vs[CHOOSE n \in DOMAIN ks : ks[n] = k]]

\* byte -> code point of its one-character symbol
bytes_to_unicode == ZipDict(BtuBs, BtuCs)

(***************************************************************************)
(* Character classes and str methods.  The classes are those of Unicode    *)
(* restricted to code points below 256 (ASCII and Latin-1), the range the   *)
(* model's texts are drawn from.                                            *)
(***************************************************************************)
\* \s of the pattern and str.isspace() of strip()
IsSpace(c) == c \in (9..13) \cup {32, 133, 160}

\* \p{L}
IsLetter(c) ==
    c \in (65..90) \cup (97..122) \cup {170, 181, 186}
          \cup (192..214) \cup (216..246) \cup (248..255)

\* \p{N}
IsNumber(c) == c \in (48..57) \cup {178, 179, 185} \cup (188..190)

\* [^\s\p{L}\p{N}]
IsOther(c) == ~IsSpace(c) /\ ~IsLetter(c) /\ ~IsNumber(c)

\* str.lower(), one code point
LowerChar(c) ==
    IF c \in (65..90) \cup (192..214) \cup (216..222) THEN c + 32 ELSE c

\* str.lower()
Lower(s) == [i \in DOMAIN s |-> LowerChar(s[i])]

\* str.strip()
RECURSIVE LStrip(_)
LStrip(s) ==
    IF s # <<>> /\ IsSpace(Head(s)) THEN LStrip(Tail(s)) ELSE s

RECURSIVE RStrip(_)
RStrip(s) ==
    IF s # <<>> /\ IsSpace(s[Len(s)]) THEN RStrip(SubSeq(s, 1, Len(s) - 1)) ELSE s

Strip(s) == RStrip(LStrip(s))

\* re.sub(r'\s+', ' ', text)
RECURSIVE CollapseWs(_)
CollapseWs(s) ==
    IF s = <<>> THEN <<>>
    ELSE IF IsSpace(Head(s)) THEN <<SP>> \o CollapseWs(LStrip(s))
    ELSE <<Head(s)>> \o CollapseWs(Tail(s))

\* text.strip() of basic_clean; on the texts of this model (no '&', no
\* mis-encoded characters) ftfy.fix_text and html.unescape change nothing
basic_clean(text) == Strip(text)

whitespace_clean(text) == Strip(CollapseWs(text))

\* str.split(sep) for a one-character sep: empty fields are kept
RECURSIVE SplitOn(_, _, _)
SplitOn(s, sep, cur) ==
    IF s = <<>> THEN <<cur>>
    ELSE IF Head(s) = sep THEN <<cur>> \o SplitOn(Tail(s), sep, <<>>)
    ELSE SplitOn(Tail(s), sep, Append(cur, Head(s)))

Split(s, sep) == SplitOn(s, sep, <<>>)

\* str.split(): fields separated by runs of whitespace, no empty fields
RECURSIVE SplitWsFrom(_, _)
SplitWsFrom(s, cur) ==
    IF s = <<>> THEN (IF cur = <<>> THEN <<>> ELSE <<cur>>)
    ELSE IF IsSpace(Head(s))
         THEN (IF cur = <<>> THEN <<>> ELSE <<cur>>) \o SplitWsFrom(Tail(s), <<>>)
    ELSE SplitWsFrom(Tail(s), Append(cur, Head(s)))

SplitWs(s) == SplitWsFrom(s, <<>>)

\* sep.join(parts) for a one-character sep
RECURSIVE Join(_, _)
Join(parts, sep) ==
    IF parts = <<>> THEN <<>>
    ELSE IF Len(parts) = 1 THEN Head(parts)
    ELSE Head(parts) \o <<sep>> \o Join(Tail(parts), sep)

\* str.replace(old, new): left to right, non-overlapping
RECURSIVE Replace(_, _, _)
Replace(s, old, new) ==
    IF s = <<>> THEN <<>>
    ELSE IF StartsAt(s, old, 1) THEN new \o Replace(From(s, Len(old) + 1), old, new)
    ELSE <<Head(s)>> \o Replace(Tail(s), old, new)

(***************************************************************************)
(* UTF-8: str.encode('utf-8') and bytes.decode('utf-8', errors='replace'). *)
(***************************************************************************)
Utf8Char(c) ==
    IF c < 128 THEN <<c>>
    ELSE IF c < 2048 THEN <<192 + (c \div 64), 128 + (c % 64)>>
    ELSE IF c < 65536
         THEN <<224 + (c \div 4096), 128 + ((c \div 64) % 64), 128 + (c % 64)>>
    ELSE <<240 + (c \div 262144), 128 + ((c \div 4096) % 64),
           128 + ((c \div 64) % 64), 128 + (c % 64)>>

Utf8Encode(s) == Flatten([i \in DOMAIN s |-> Utf8Char(s[i])])

\* U+FFFD, the replacement character of errors='replace'
Replacement == 65533

\* length of the sequence a lead byte announces; 0 for a byte that cannot lead
Utf8Need(b) ==
    IF b < 128 THEN 1
    ELSE IF b \in 194..223 THEN 2
    ELSE IF b \in 224..239 THEN 3
    ELSE IF b \in 240..244 THEN 4
    ELSE 0

\* the k-th byte (k >= 2) of a sequence led by lead may be b
Utf8ContOk(lead, k, b) ==
    IF k > 2 THEN b \in 128..191
    ELSE IF lead = 224 THEN b \in 160..191
    ELSE IF lead = 237 THEN b \in 128..159
    ELSE IF lead = 240 THEN b \in 144..191
    ELSE IF lead = 244 THEN b \in 128..143
    ELSE b \in 128..191

\* the number of bytes after bs[1] that continue its sequence validly
RECURSIVE Utf8Valid(_, _, _)
Utf8Valid(bs, need, k) ==
    IF k > need \/ k > Len(bs) \/ ~Utf8ContOk(bs[1], k, bs[k]) THEN k - 2
    ELSE Utf8Valid(bs, need, k + 1)

Utf8Value(bs, need) ==
    IF need = 1 THEN bs[1]
    ELSE IF need = 2 THEN (bs[1] - 192) * 64 + (bs[2] - 128)
    ELSE IF need = 3
         THEN (bs[1] - 224) * 4096 + (bs[2] - 128) * 64 + (bs[3] - 128)
    ELSE (bs[1] - 240) * 262144 + (bs[2] - 128) * 4096
         + (bs[3] - 128) * 64 + (bs[4] - 128)

RECURSIVE Utf8Decode(_)
Utf8Decode(bs) ==
    IF bs = <<>> THEN <<>>
    ELSE LET need == Utf8Need(bs[1])
             ok   == IF need = 0 THEN 0 ELSE Utf8Valid(bs, need, 2)
         IN  IF need # 0 /\ ok = need - 1
             THEN <<Utf8Value(bs, need)>> \o Utf8Decode(From(bs, need + 1))
             ELSE <<Replacement>> \o Utf8Decode(From(bs, ok + 2))

(***************************************************************************)
(* self.pat and re.findall(self.pat, text): the pre-tokenizer.             *)
(***************************************************************************)
\* the literal alternatives of the pattern, in the pattern's order:
\* <|startoftext|>  <|endoftext|>  's  't  're  've  'm  'll  'd
PatLiterals ==
    << SOT, EOT, <<39, 115>>, <<39, 116>>, <<39, 114, 101>>, <<39, 118, 101>>,
       <<39, 109>>, <<39, 108, 108>>, <<39, 100>> >>

\* a literal matches at position at, letters compared without case
\* (re.IGNORECASE)
MatchesLit(text, lit, at) ==
    /\ at + Len(lit) - 1 <= Len(text)
    /\ \A k \in 1..Len(lit) : LowerChar(text[at + k - 1]) = LowerChar(lit[k])

\* [\p{L}]+ : the length of the longest run of letters from position at
RECURSIVE LetterRun(_, _)
LetterRun(text, at) ==
    IF at <= Len(text) /\ IsLetter(text[at]) THEN 1 + LetterRun(text, at + 1) ELSE 0

\* [^\s\p{L}\p{N}]+ : the length of the longest run of other characters
RECURSIVE OtherRun(_, _)
OtherRun(text, at) ==
    IF at <= Len(text) /\ IsOther(text[at]) THEN 1 + OtherRun(text, at + 1) ELSE 0

\* the length of the pattern's match at position at (the first alternative
\* that matches there), 0 when none does
MatchLen(text, at) ==
    LET lits == {i \in DOMAIN PatLiterals : MatchesLit(text, PatLiterals[i], at)}
    IN  IF lits # {}
        THEN Len(PatLiterals[CHOOSE i \in lits : \A j \in lits : i <= j])
        ELSE IF IsLetter(text[at]) THEN LetterRun(text, at)
        ELSE IF IsNumber(text[at]) THEN 1
        ELSE OtherRun(text, at)

\* re.findall(self.pat, text): leftmost matches, left to right
RECURSIVE FindAllFrom(_, _)
FindAllFrom(text, at) ==
    IF at > Len(text) THEN <<>>
    ELSE LET n == MatchLen(text, at)
         IN  IF n = 0 THEN FindAllFrom(text, at + 1)
             ELSE <<SubSeq(text, at, at + n - 1)>> \o FindAllFrom(text, at + n)

FindAll(text) == FindAllFrom(text, 1)

(***************************************************************************)
(* SimpleTokenizer.__init__: the tables built from the merge artifact.     *)
(* lines is gzip.open(bpe_path).read().decode("utf-8").split('\n').        *)
(***************************************************************************)
\* the slice bound of merges[1:49152-256-2+1]
MergeEnd == 49152 - 256 - 2 + 1

\* merges[1:MergeEnd]: the header is dropped, at most MergeEnd - 1 lines kept
KeptLines(lines) == SubSeq(lines, 2, Min(Len(lines), MergeEnd))

\* [tuple(merge.split()) for merge in merges]
ParseMerges(lines) ==
    LET kept == KeptLines(lines) IN [i \in DOMAIN kept |-> SplitWs(kept[i])]

\* BuildVocab with the loop that appends the merges left out
BuildVocabNoMerges(ms) ==
    LET syms == BtuCs
    IN  [k \in DOMAIN syms |-> <<syms[k]>>]
        \o [k \in DOMAIN syms |-> <<syms[k]>> \o EOW]
        \o <<SOT, EOT>>

\* the vocab list: list(bytes_to_unicode().values()), that is cs in insertion
\* order, then each symbol + '</w>', one entry per merge, the two specials
BuildVocab(ms) ==
    LET syms == BtuCs
    IN  [k \in DOMAIN syms |-> <<syms[k]>>]
        \o [k \in DOMAIN syms |-> <<syms[k]>> \o EOW]
        \o [k \in DOMAIN ms |-> Flatten(ms[k])]
        \o <<SOT, EOT>>

\* dict(zip(keys, range(len(keys)))): a repeated key keeps its last index
ZipRange(keys) ==
    [k \in ToSet(keys) |->
        LET at == {i \in DOMAIN keys : keys[i] = k}
        IN  (CHOOSE i \in at : \A j \in at : j <= i) - 1]

\* {v: k for k, v in d.items()}
InvertDict(d) ==
    [v \in {d[k] : k \in DOMAIN d} |-> CHOOSE k \in DOMAIN d : d[k] = v]

BuildEncoder(ms) == ZipRange(BuildVocab(ms))

BuildDecoder(enc) == InvertDict(enc)

BuildRanks(ms) == ZipRange(ms)

InitialCache == (SOT :> SOT) @@ (EOT :> EOT)

(***************************************************************************)
(* get_pairs and the steps of SimpleTokenizer.bpe.                         *)
(***************************************************************************)
get_pairs(word) == {<<word[i], word[i + 1]>> : i \in 1..(Len(word) - 1)}

\* tuple(token[:-1]) + (token[-1] + '</w>',)
InitialWord(token) ==
    [i \in 1..Len(token) |->
        IF i < Len(token) THEN <<token[i]>> ELSE <<token[i]>> \o EOW]

\* bpe_ranks.get(p, inf) <= bpe_ranks.get(q, inf)
RankLeq(ranks, p, q) ==
    \/ q \notin DOMAIN ranks
    \/ p \in DOMAIN ranks /\ ranks[p] <= ranks[q]

\* MinPairs with max in place of min among the ranked pairs
MaxPairs(ranks, ps) ==
    IF ps \cap DOMAIN ranks = {} THEN ps
    ELSE {p \in ps \cap DOMAIN ranks :
             \A q \in ps \cap DOMAIN ranks : ranks[q] <= ranks[p]}

\* the pairs min(pairs, key=...) may return: those of least rank (several
\* only when no pair is ranked, and then the set's iteration order decides)
MinPairs(ranks, pairs) == {p \in pairs : \A q \in pairs : RankLeq(ranks, p, q)}

\* word.index(x, i) in 1-based indexing; 0 stands for the ValueError
IndexFrom(word, x, i) ==
    LET at == {j \in i..Len(word) : word[j] = x}
    IN  IF at = {} THEN 0 ELSE CHOOSE j \in at : \A k \in at : j <= k

\* ScanIter with new_word.extend(word[i:]) left out of the except branch
ScanIterDropsRest(w, first, second, at, nw) ==
    LET j == IndexFrom(w, first, at)
    IN  IF j = 0
        THEN [i |-> at, new_word |-> nw, brk |-> TRUE]
        ELSE LET copied == nw \o SubSeq(w, at, j - 1)
             IN  IF w[j] = first /\ j < Len(w) /\ w[j + 1] = second
                 THEN [i |-> j + 2, new_word |-> Append(copied, first \o second),
                       brk |-> FALSE]
                 ELSE [i |-> j + 1, new_word |-> Append(copied, w[j]),
                       brk |-> FALSE]

\* ScanIter with i += 1 after a merge: the scan resumes inside the merged pair
ScanIterOverlap(w, first, second, at, nw) ==
    LET j == IndexFrom(w, first, at)
    IN  IF j = 0
        THEN [i |-> at, new_word |-> nw \o From(w, at), brk |-> TRUE]
        ELSE LET copied == nw \o SubSeq(w, at, j - 1)
             IN  IF w[j] = first /\ j < Len(w) /\ w[j + 1] = second
                 THEN [i |-> j + 1, new_word |-> Append(copied, first \o second),
                       brk |-> FALSE]
                 ELSE [i |-> j + 1, new_word |-> Append(copied, w[j]),
                       brk |-> FALSE]

\* one iteration of the inner while loop (i <= Len(word) holds): the new i
\* and new_word, and whether the iteration left the loop by break
ScanIter(w, first, second, at, nw) ==
    LET j == IndexFrom(w, first, at)
    IN  IF j = 0
        THEN [i |-> at, new_word |-> nw \o From(w, at), brk |-> TRUE]
        ELSE LET copied == nw \o SubSeq(w, at, j - 1)
             IN  IF w[j] = first /\ j < Len(w) /\ w[j + 1] = second
                 THEN [i |-> j + 2, new_word |-> Append(copied, first \o second),
                       brk |-> FALSE]
                 ELSE [i |-> j + 1, new_word |-> Append(copied, w[j]),
                       brk |-> FALSE]

\* the inner while loop, from position at with new_word nw built so far
RECURSIVE RewriteFrom(_, _, _, _, _)
RewriteFrom(w, first, second, at, nw) ==
    IF at > Len(w) THEN nw
    ELSE LET st == ScanIter(w, first, second, at, nw)
         IN  IF st.brk THEN st.new_word
             ELSE RewriteFrom(w, first, second, st.i, st.new_word)

\* Rewrite with the assignment word = new_word lost: the word stays as it was
RewriteKeepsWord(w, first, second) == w

\* one rewrite pass: new_word after the inner loop
Rewrite(word, first, second) == RewriteFrom(word, first, second, 1, <<>>)

\* the outer while True loop run to its end: the final word
RECURSIVE BpeLoop(_, _)
BpeLoop(ranks, word) ==
    LET bigram == CHOOSE p \in MinPairs(ranks, get_pairs(word)) : TRUE
    IN  IF bigram \notin DOMAIN ranks THEN word
        ELSE LET new_word == Rewrite(word, bigram[1], bigram[2])
             IN  IF Len(new_word) = 1 THEN new_word ELSE BpeLoop(ranks, new_word)

\* a whole call bpe(token): the value returned and the cache afterwards
BpeCallResult(ranks, memo, token) ==
    IF token \in DOMAIN memo
    THEN [val |-> memo[token], cache |-> memo, err |-> "none"]
    ELSE IF token = <<>>
    THEN [val |-> <<>>, cache |-> memo, err |-> "IndexError"]
    ELSE IF get_pairs(InitialWord(token)) = {}
    THEN [val |-> token \o EOW, cache |-> memo, err |-> "none"]
    ELSE LET joined == Join(BpeLoop(ranks, InitialWord(token)), SP)
         IN  [val |-> joined, cache |-> (token :> joined) @@ memo, err |-> "none"]

(***************************************************************************)
(* SimpleTokenizer.encode and SimpleTokenizer.decode as whole calls.       *)
(***************************************************************************)
\* ''.join(self.byte_encoder[b] for b in token.encode('utf-8'))
ToSymbols(benc, tok) ==
    LET bs == Utf8Encode(tok) IN [k \in DOMAIN bs |-> benc[bs[k]]]

\* the for loop of encode over the remaining tokens; a failed lookup
\* self.encoder[bpe_token] ends the call with KeyError, after bpe has
\* already written the token's entry to the cache
RECURSIVE EncodeFrom(_, _, _, _, _, _)
EncodeFrom(benc, enc, ranks, tokens, memo, ids) ==
    IF tokens = <<>> THEN [val |-> ids, cache |-> memo, err |-> "none"]
    ELSE LET r     == BpeCallResult(ranks, memo, ToSymbols(benc, Head(tokens)))
             units == Split(r.val, SP)
         IN  IF \E k \in DOMAIN units : units[k] \notin DOMAIN enc
             THEN [val |-> <<>>, cache |-> r.cache, err |-> "KeyError"]
             ELSE EncodeFrom(benc, enc, ranks, Tail(tokens), r.cache,
                             ids \o [k \in DOMAIN units |-> enc[units[k]]])

\* CleanText with the .lower() call left out
CleanTextNoLower(text) == whitespace_clean(basic_clean(text))

\* whitespace_clean(basic_clean(text)).lower()
CleanText(text) == Lower(whitespace_clean(basic_clean(text)))

EncodeResult(benc, enc, ranks, memo, text) ==
    EncodeFrom(benc, enc, ranks, FindAll(CleanText(text)), memo, <<>>)

DecodeResult(bdec, dec, ids) ==
    IF \E k \in DOMAIN ids : ids[k] \notin DOMAIN dec
    THEN [val |-> <<>>, err |-> "KeyError"]
    ELSE LET text == Flatten([k \in DOMAIN ids |-> dec[ids[k]]])
         IN  IF \E k \in DOMAIN text : text[k] \notin DOMAIN bdec
             THEN [val |-> <<>>, err |-> "KeyError"]
             ELSE [val |-> Replace(Utf8Decode([k \in DOMAIN text |->
                                                  bdec[text[k]]]),
                                   EOW, <<SP>>),
                   err |-> "none"]

(***************************************************************************)
(* The state of one SimpleTokenizer instance and of its caller.            *)
(***************************************************************************)
VARIABLES
    status,     \* "new" before __init__ has run, "ready" after it returned
    lines,      \* the artifact's lines read by __init__
    byte_encoder,  \* self.byte_encoder
    byte_decoder,  \* self.byte_decoder
    encoder,    \* self.encoder
    decoder,    \* self.decoder
    bpe_ranks,  \* self.bpe_ranks
    cache,      \* self.cache
    pc,         \* where the running call stands: "idle", "loop", "join", "scan", "scanned"
    token,      \* bpe's argument while a bpe call runs
    word,       \* bpe's local word
    pairs,      \* bpe's local pairs
    bigram,     \* bpe's local bigram, once selected
    rounds,     \* rewrite passes done by the running bpe call
    i,          \* the inner loop's index i (1-based)
    new_word,   \* the inner loop's new_word
    ret,        \* what the last finished call got and returned
    returned,   \* token -> what its first finished bpe call returned
    ncalls      \* calls made on the instance so far

vars == <<status, lines, byte_encoder, byte_decoder, encoder, decoder, bpe_ranks, cache, pc, token, word,
          pairs, bigram, rounds, i, new_word, ret, returned, ncalls>>

tables == <<status, lines, byte_encoder, byte_decoder, encoder, decoder,
           bpe_ranks>>

locals == <<token, word, pairs, bigram, rounds>>

scan == <<i, new_word>>

EmptyMap == [k \in {} |-> <<>>]

NoPair == << <<>>, <<>> >>

\* the caller's record of a finished call: op(arg) returned val or raised
\* err; how tells which return statement of bpe answered; rt and src mark a
\* decode whose argument was the output of encode(src)
Returned(op, arg, val, err, how) ==
    [op |-> op, arg |-> arg, val |-> val, err |-> err, how |-> how,
     rt |-> FALSE, src |-> <<>>]

NoCall == Returned("none", <<>>, <<>>, "none", "none")

\* the merges list of __init__
merges == ParseMerges(lines)

Remember(tok, val) ==
    IF tok \in DOMAIN returned THEN returned ELSE (tok :> val) @@ returned

\* SimpleTokenizer(bpe_path) on an artifact with these lines
Construct(ls) ==
    /\ status = "new"
    /\ status' = "ready"
    /\ lines' = ls
    /\ byte_encoder' = bytes_to_unicode
    /\ byte_decoder' = InvertDict(byte_encoder')
    /\ encoder' = BuildEncoder(ParseMerges(ls))
    /\ decoder' = BuildDecoder(encoder')
    /\ bpe_ranks' = BuildRanks(ParseMerges(ls))
    /\ cache' = InitialCache
    /\ UNCHANGED <<pc, locals, scan, ret, returned, ncalls>>

\* bpe(tok) up to its first return or to the head of the while loop
BpeCall(tok, cap) ==
    /\ status = "ready" /\ pc = "idle" /\ ncalls < cap
    /\ ncalls' = ncalls + 1
    /\ LET w == InitialWord(tok)
       IN  IF tok \in DOMAIN cache
           THEN /\ ret' = Returned("bpe", tok, cache[tok], "none", "hit")
                /\ returned' = Remember(tok, cache[tok])
                /\ UNCHANGED <<pc, locals>>
           ELSE IF tok = <<>>
           THEN /\ ret' = Returned("bpe", tok, <<>>, "IndexError", "none")
                /\ UNCHANGED <<pc, locals, returned>>
           ELSE IF get_pairs(w) = {}
           THEN /\ ret' = Returned("bpe", tok, tok \o EOW, "none", "single")
                /\ returned' = Remember(tok, tok \o EOW)
                /\ UNCHANGED <<pc, locals>>
           ELSE /\ pc' = "loop"
                /\ token' = tok
                /\ word' = w
                /\ pairs' = get_pairs(w)
                /\ rounds' = 0
                /\ UNCHANGED <<bigram, ret, returned>>
    /\ UNCHANGED <<tables, cache, scan>>

\* one pass of the while True loop
BpeRound ==
    /\ pc = "loop"
    /\ \E bg \in MinPairs(bpe_ranks, pairs) :
          /\ bigram' = bg
          /\ IF bg \notin DOMAIN bpe_ranks
             THEN /\ pc' = "join"
                  /\ UNCHANGED <<word, pairs, rounds>>
             ELSE /\ word' = Rewrite(word, bg[1], bg[2])
                  /\ rounds' = rounds + 1
                  /\ IF Len(word') = 1
                     THEN pc' = "join" /\ UNCHANGED pairs
                     ELSE pc' = "loop" /\ pairs' = get_pairs(word')
    /\ UNCHANGED <<tables, cache, token, scan, ret, returned, ncalls>>

\* BpeReturn with the store self.cache[token] = word left out
BpeReturnNoStore ==
    /\ pc = "join"
    /\ pc' = "idle"
    /\ ret' = Returned("bpe", token, Join(word, SP), "none", "merged")
    /\ returned' = Remember(token, Join(word, SP))
    /\ UNCHANGED <<tables, cache, locals, scan, ncalls>>

\* after the loop: join, store in the cache, return
BpeReturn ==
    /\ pc = "join"
    /\ pc' = "idle"
    /\ cache' = (token :> Join(word, SP)) @@ cache
    /\ ret' = Returned("bpe", token, Join(word, SP), "none", "merged")
    /\ returned' = Remember(token, Join(word, SP))
    /\ UNCHANGED <<tables, locals, scan, ncalls>>

\* encode(text), a whole call
Encode(text, cap) ==
    /\ status = "ready" /\ pc = "idle" /\ ncalls < cap
    /\ ncalls' = ncalls + 1
    /\ LET r == EncodeResult(byte_encoder, encoder, bpe_ranks, cache, text)
       IN  /\ cache' = r.cache
           /\ ret' = Returned("encode", text, r.val, r.err, "none")
    /\ UNCHANGED <<tables, pc, locals, scan, returned>>

\* decode(ids), a whole call
Decode(ids, cap) ==
    /\ status = "ready" /\ pc = "idle" /\ ncalls < cap
    /\ ncalls' = ncalls + 1
    /\ LET r == DecodeResult(byte_decoder, decoder, ids)
       IN  ret' = [Returned("decode", ids, r.val, r.err, "none") EXCEPT
                      !.rt = (ret.op = "encode" /\ ret.err = "none"
                              /\ ret.val = ids),
                      !.src = IF ret.op = "encode" /\ ret.err = "none"
                                 /\ ret.val = ids
                              THEN ret.arg ELSE <<>>]
    /\ UNCHANGED <<tables, cache, pc, locals, scan, returned>>

\* decode applied to what the last encode returned
DecodeLast(cap) ==
    /\ ret.op = "encode" /\ ret.err = "none"
    /\ Decode(ret.val, cap)

\* one iteration of the inner while loop of a rewrite pass run on its own
ScanStep ==
    /\ pc = "scan"
    /\ LET st == ScanIter(word, bigram[1], bigram[2], i, new_word)
       IN  /\ i' = st.i
           /\ new_word' = st.new_word
           /\ pc' = IF st.brk \/ st.i > Len(word) THEN "scanned" ELSE "scan"
    /\ UNCHANGED <<tables, cache, token, word, pairs, bigram, rounds, ret,
                   returned, ncalls>>

(***************************************************************************)
(* Inputs.  Letters are written as code points:                            *)
(*   space=32 !=33 #=35 /=47 <=60 >=62 H=72 L=76 W=87                      *)
(*   a=97 b=98 d=100 e=101 h=104 l=108 o=111 r=114 v=118 w=119             *)
(***************************************************************************)
MaxMerges == 2

MaxPieces == 3

MaxCalls == 2

MaxBpeCalls == 3

MaxScanLen == 3

MaxMarkerMerges == 3

\* all sequences of at most n elements of S
SeqsUpTo(S, n) == UNION {[1..k -> S] : k \in 0..n}

\* the artifact's first line, which __init__ drops: "#v"
Header == <<35, 118>>

\* artifacts: the header, then at most n rule lines
ArtifactsOf(ruleLines, n) == {<<Header>> \o ls : ls \in SeqsUpTo(ruleLines, n)}

\* texts: at most n pieces, one after the other
TextsOf(pieces, n) == {Flatten(ps) : ps \in SeqsUpTo(pieces, n)}

\* "l l", "e ll", "el l", and a line of one field, "l"
RuleLines ==
    { <<108, 32, 108>>, <<101, 32, 108, 108>>, <<101, 108, 32, 108>>, <<108>> }

Artifacts == ArtifactsOf(RuleLines, MaxMerges)

\* "Hello", "!", "<|endoftext|>"
Pieces == { <<72, 101, 108, 108, 111>>, <<33>>, EOT }

Texts == TextsOf(Pieces, MaxPieces)

\* tokens of direct bpe calls beside the pipeline: "<|endoftext|>", "hello"
Tokens == { EOT, <<104, 101, 108, 108, 111>> }

\* ids decode is called on beside encode's outputs
IdLists == { <<512>>, <<75, 512>>, <<600>> }

\* "l l", "o r", "e ll"
RtRuleLines == { <<108, 32, 108>>, <<111, 32, 114>>, <<101, 32, 108, 108>> }

RtArtifacts == ArtifactsOf(RtRuleLines, MaxMerges)

\* "Hello", "World", three spaces
RtPieces ==
    { <<72, 101, 108, 108, 111>>, <<87, 111, 114, 108, 100>>, <<32, 32, 32>> }

RtTexts == TextsOf(RtPieces, MaxPieces)

\* "l o", "lo w", "a a", "e r</w>"
BpeRuleLines ==
    { <<108, 32, 111>>, <<108, 111, 32, 119>>, <<97, 32, 97>>,
      <<101, 32, 114>> \o EOW }

BpeArtifacts == ArtifactsOf(BpeRuleLines, MaxMerges)

\* "lower", "aaaa", "a", "<|endoftext|>"
BpeTokens ==
    { <<108, 111, 119, 101, 114>>, <<97, 97, 97, 97>>, <<97>>, EOT }

\* "Lower  a"
BpeTexts == { <<76, 111, 119, 101, 114, 32, 32, 97>> }

\* symbols of the words a rewrite pass is run on: "a", "b", "ab"
ScanSymbols == { <<97>>, <<98>>, <<97, 98>> }

ScanWords == SeqsUpTo(ScanSymbols, MaxScanLen) \ {<<>>}

\* "< /", "</ w", "</w >"
MarkerRuleLines ==
    { <<60, 32, 47>>, <<60, 47, 32, 119>>, <<60, 47, 119, 32, 62>> }

MarkerArtifacts == ArtifactsOf(MarkerRuleLines, MaxMarkerMerges)

\* "</w>a", "w</a", "a"
MarkerTokens == { EOW \o <<97>>, <<119, 60, 47, 97>>, <<97>> }

(***************************************************************************)
(* Specifications.                                                         *)
(***************************************************************************)
Init ==
    /\ status = "new"
    /\ lines = <<>>
    /\ byte_encoder = EmptyMap
    /\ byte_decoder = EmptyMap
    /\ encoder = EmptyMap
    /\ decoder = EmptyMap
    /\ bpe_ranks = EmptyMap
    /\ cache = EmptyMap
    /\ pc = "idle"
    /\ token = <<>>
    /\ word = <<>>
    /\ pairs = {}
    /\ bigram = NoPair
    /\ rounds = 0
    /\ i = 1
    /\ new_word = <<>>
    /\ ret = NoCall
    /\ returned = EmptyMap
    /\ ncalls = 0

\* the tokenizer used through all its operations
Next ==
    \/ \E ls \in Artifacts : Construct(ls)
    \/ \E tok \in Tokens : BpeCall(tok, MaxCalls)
    \/ BpeRound
    \/ BpeReturn
    \/ \E text \in Texts : Encode(text, MaxCalls)
    \/ \E ids \in IdLists : Decode(ids, MaxCalls)
    \/ DecodeLast(MaxCalls)

Spec == Init /\ [][Next]_vars

\* encode on an instance whose cache holds no word yet, then decode
NextRoundTrip ==
    \/ \E ls \in RtArtifacts : Construct(ls)
    \/ \E text \in RtTexts : cache = InitialCache /\ Encode(text, MaxCalls)
    \/ DecodeLast(MaxCalls)

SpecRoundTrip == Init /\ [][NextRoundTrip]_vars

\* the merge engine
NextBpe ==
    \/ \E ls \in BpeArtifacts : Construct(ls)
    \/ \E tok \in BpeTokens : BpeCall(tok, MaxBpeCalls)
    \/ BpeRound
    \/ BpeReturn
    \/ \E text \in BpeTexts : Encode(text, MaxBpeCalls)
    \/ DecodeLast(MaxBpeCalls)

SpecBpe == Init /\ [][NextBpe]_vars

\* the merge engine on tokens that hold the characters of '</w>'
NextMarker ==
    \/ \E ls \in MarkerArtifacts : Construct(ls)
    \/ \E tok \in MarkerTokens : BpeCall(tok, MaxCalls)
    \/ BpeRound
    \/ BpeReturn

SpecMarker == Init /\ [][NextMarker]_vars

\* one rewrite pass on its own, on any word and any pair
InitScan ==
    /\ status = "new"
    /\ lines = <<>>
    /\ byte_encoder = EmptyMap
    /\ byte_decoder = EmptyMap
    /\ encoder = EmptyMap
    /\ decoder = EmptyMap
    /\ bpe_ranks = EmptyMap
    /\ cache = EmptyMap
    /\ pc = "scan"
    /\ token = <<>>
    /\ word \in ScanWords
    /\ pairs = {}
    /\ bigram \in ScanSymbols \X ScanSymbols
    /\ rounds = 0
    /\ i = 1
    /\ new_word = <<>>
    /\ ret = NoCall
    /\ returned = EmptyMap
    /\ ncalls = 0

NextScan == ScanStep

SpecScan == InitScan /\ [][NextScan]_vars

(***************************************************************************)
(* Reference definitions the claims are stated with.                       *)
(***************************************************************************)
\* the left-to-right, non-overlapping merge of every first, second in w
RECURSIVE RefMerge(_, _, _)
RefMerge(w, first, second) ==
    IF w = <<>> THEN <<>>
    ELSE IF Len(w) >= 2 /\ w[1] = first /\ w[2] = second
         THEN <<first \o second>> \o RefMerge(SubSeq(w, 3, Len(w)), first, second)
    ELSE <<w[1]>> \o RefMerge(Tail(w), first, second)

\* the space-separated units of a bpe result
Units(val) == Split(val, SP)

\* p is a pair of symbols next to each other in w
Adjacent(w, p) == \E k \in 1..(Len(w) - 1) : w[k] = p[1] /\ w[k + 1] = p[2]

\* the pairs of RankTable that are adjacent in w
RankedIn(w) == {p \in DOMAIN bpe_ranks : Len(p) = 2 /\ Adjacent(w, p)}

\* how many times sub occurs in s
CountSub(s, sub) == Cardinality({k \in 1..Len(s) : StartsAt(s, sub, k)})

\* how many times x is an element of the sequence s
CountOf(s, x) == Cardinality({k \in DOMAIN s : s[k] = x})

EndsWith(s, suffix) ==
    Len(s) >= Len(suffix) /\ SubSeq(s, Len(s) - Len(suffix) + 1, Len(s)) = suffix

\* the words of a text, lowercased and joined by single spaces
ExpectedText(text) ==
    LET ws == SplitWs(text) IN Join([k \in DOMAIN ws |-> Lower(ws[k])], SP)

\* a text of ASCII letters and whitespace only
IsWordText(text) ==
    \A k \in DOMAIN text :
        IsSpace(text[k]) \/ text[k] \in (65..90) \cup (97..122)

\* N of the spec: 256 + 256 + number of merge rules + 2
VocabSize == ByteCount + ByteCount + Len(merges) + 2

\* "Hello   World" and "hello world"
HelloWorld ==
    <<72, 101, 108, 108, 111, 32, 32, 32, 87, 111, 114, 108, 100>>

\* ("l", "o"), ("lo", "w")
LowerMerges == << <<<<108>>, <<111>>>>, <<<<108, 111>>, <<119>>>> >>

\* "lower"
LowerToken == <<108, 111, 119, 101, 114>>

\* "low e r</w>"
LowerResult == <<108, 111, 119, 32, 101, 32, 114>> \o EOW

(***************************************************************************)
(* Claims.                                                                 *)
(***************************************************************************)

(* C1, as stated: decode(encode(text)) is exactly the text lowercased, with
   every whitespace run collapsed to one space and leading and trailing
   whitespace removed ("Hello   World" gives "hello world"). *)
C1_RoundTripIsNormalizedText ==
    (ret.op = "decode" /\ ret.rt) =>
        ret.err = "none" /\ ret.val = ExpectedText(ret.src)

(* C1, amended: for a text of ASCII-letter words separated by whitespace,
   decode(encode(text)) is the lowercased words each followed by one space,
   so the normalized text plus one trailing space ("Hello   World" gives
   "hello world "), and the empty string when the text has no word. *)
C1_RoundTripHasTrailingSpace ==
    (ret.op = "decode" /\ ret.rt /\ IsWordText(ret.src)) =>
        /\ ret.err = "none"
        /\ ret.val = IF SplitWs(ret.src) = <<>> THEN <<>>
                     ELSE ExpectedText(ret.src) \o <<SP>>

C1_Witness ==
    /\ ret.op = "decode" /\ ret.rt /\ ret.src = HelloWorld
    /\ ret.val = <<104, 101, 108, 108, 111, 32, 119, 111, 114, 108, 100, 32>>

(* C2: after construction the Decoder is defined on exactly 0..N-1, where
   N = 256 + 256 + number of merge rules + 2, and Decoder[Encoder[t]] = t for
   every token string t of the Vocabulary. *)
C2_DecoderIsDense ==
    status = "ready" =>
        /\ DOMAIN decoder = 0..(VocabSize - 1)
        /\ \A t \in ToSet(BuildVocab(merges)) : decoder[encoder[t]] = t

(* C3: encode never fails with a lookup error: every symbol of the Word and
   every space-separated unit of a value bpe returns is a key of Encoder, and
   no encode call ends with KeyError. *)
C3_UnitsAreEncoderKeys ==
    /\ pc \in {"loop", "join"} => \A k \in DOMAIN word : word[k] \in DOMAIN encoder
    /\ (ret.op = "bpe" /\ ret.err = "none") =>
          \A k \in DOMAIN Units(ret.val) : Units(ret.val)[k] \in DOMAIN encoder
    /\ ret.op = "encode" => ret.err = "none"

C3_Witness ==
    /\ ret.op = "encode" /\ ret.err = "none"
    /\ \E k \in DOMAIN ret.val :
          ret.val[k] >= 2 * ByteCount /\ ret.val[k] < VocabSize - 2

C4Step ==
    /\ (pc = "loop" /\ rounds' = rounds + 1) =>
          /\ bigram' \in RankedIn(word)
          /\ \A q \in RankedIn(word) : bpe_ranks[bigram'] <= bpe_ranks[q]
          /\ word' = RefMerge(word, bigram'[1], bigram'[2])
    /\ (pc = "loop" /\ pc' = "join") => (Len(word') = 1 \/ RankedIn(word') = {})
    /\ (pc = "loop" /\ rounds' = rounds + 1 /\ merges = LowerMerges
        /\ token = LowerToken) =>
          bigram' = LowerMerges[rounds + 1]
    /\ (pc = "join" /\ pc' = "idle" /\ merges = LowerMerges
        /\ token = LowerToken) =>
          ret'.val = LowerResult

(* C4: in every merge round of bpe the pair merged is the adjacent pair of
   the current Word with the lowest RankTable index, and the loop is left
   only when the Word has one symbol or none of its adjacent pairs is in
   RankTable; with merges [("l","o"), ("lo","w")] the token "lower" has l+o
   merged in the first round, lo+w in the second, and bpe returns
   "low e r</w>". *)
C4_LowestRankMergedFirst == [][C4Step]_vars

C4_Witness ==
    /\ merges = LowerMerges /\ pc = "idle"
    /\ ret.op = "bpe" /\ ret.how = "merged"
    /\ ret.arg = LowerToken /\ ret.val = LowerResult

(* C5: bpe terminates with a non-empty, space-separated string: every round
   that rewrites the Word shortens it by at least one symbol (rounds done plus
   the Word's length never exceed the token's length, so a token of k
   characters has at most k-1 rounds), a running call can always take its
   next step, and the value returned and each of its units is non-empty. *)
C5_BpeTerminates ==
    /\ pc \in {"loop", "join"} =>
          /\ Len(word) >= 1
          /\ rounds + Len(word) <= Len(token)
          /\ rounds <= Len(token) - 1
    /\ pc = "loop" => Len(word) >= 2 /\ pairs # {}
    /\ (ret.op = "bpe" /\ ret.err = "none") =>
          /\ ret.val # <<>>
          /\ \A k \in DOMAIN Units(ret.val) : Units(ret.val)[k] # <<>>

C5_Witness == pc = "join" /\ rounds = 2 /\ Len(word) = 3 /\ Len(token) = 5

(* C6, as stated: once a call bpe(token) has returned, the token is a key of
   BpeCache holding the value returned, and every later call returns that
   value. *)
C6_TokenCachedAfterFirstCall ==
    \A t \in DOMAIN returned :
        /\ t \in DOMAIN cache
        /\ cache[t] = returned[t]
        /\ (ret.op = "bpe" /\ ret.arg = t) => ret.val = returned[t]

C6Step ==
    LET isCall == /\ pc = "idle" /\ ncalls' = ncalls + 1
                  /\ (pc' = "loop" \/ ret'.op = "bpe")
        tok    == IF pc' = "loop" THEN token' ELSE ret'.arg
    IN  /\ (isCall /\ tok \in DOMAIN returned) =>
              /\ pc' = "idle"
              /\ ret'.err = "none"
              /\ ret'.val = returned[tok]
              /\ cache' = cache
              /\ IF Len(tok) >= 2
                 THEN ret'.how = "hit" /\ tok \in DOMAIN cache
                 ELSE ret'.how = "single" /\ tok \notin DOMAIN cache
        /\ \A t \in DOMAIN returned' :
              Len(t) >= 2 => t \in DOMAIN cache' /\ cache'[t] = returned'[t]

(* C6, amended: calling bpe(token) again, with any other calls in between,
   returns the value of the first call, runs no merge loop and leaves the
   cache unchanged; a token of two or more characters is a key of BpeCache
   after its first call and the later call is a cache hit, while a token of
   one character is never stored in BpeCache and every call on it returns
   token + '</w>' by the single-symbol return. *)
C6_RepeatedCallSameResult == [][C6Step]_vars

C6_Witness ==
    /\ ret.op = "bpe" /\ ret.how = "hit" /\ ret.arg = LowerToken
    /\ token = LowerToken /\ rounds = 2
    /\ ret.val = LowerResult /\ returned[LowerToken] = LowerResult

(* C7: encoding a string that contains the literal <|endoftext|> yields, for
   each occurrence, exactly the one reserved id Encoder["<|endoftext|>"]: the
   reserved id occurs in the output as often as the literal in the text. *)
C7_SpecialTokenGivesReservedId ==
    (ret.op = "encode" /\ ret.err = "none") =>
        CountOf(ret.val, encoder[EOT]) = CountSub(ret.arg, EOT)

(* C8: construction fails with FormatError, and no instance is built, when a
   kept merge line does not have exactly two whitespace-separated fields or
   the artifact has fewer lines than the configured merge count: an instance
   that is ready was built from well-formed lines, as many as configured. *)
C8_MalformedArtifactRejected ==
    status = "ready" =>
        /\ \A k \in DOMAIN merges : Len(merges[k]) = 2
        /\ Len(lines) >= MergeEnd

(* C9: one rewrite pass for a pair (first, second) equals the left-to-right
   non-overlapping merge: (a, a, a) with (a, a) becomes (aa, a), and
   (a, a, b) with (a, b) becomes (a, ab). *)
C9_RewriteIsLeftToRightMerge ==
    pc = "scanned" => new_word = RefMerge(word, bigram[1], bigram[2])

C9_Witness ==
    /\ pc = "scanned"
    /\ word = << <<97>>, <<97>>, <<97>> >> /\ bigram = << <<97>>, <<97>> >>
    /\ new_word = << <<97, 97>>, <<97>> >>

(* C10, as stated: throughout a bpe computation the Word's symbols
   concatenated equal token + '</w>', the units of the value returned for a
   token other than the two special tokens concatenate to token + '</w>', and
   the marker '</w>' occurs only as the suffix of the last unit. *)
C10_MarkerOnlyEndsLastUnit ==
    /\ pc \in {"loop", "join"} => Flatten(word) = token \o EOW
    /\ (ret.op = "bpe" /\ ret.err = "none" /\ ret.arg \notin {SOT, EOT}) =>
          LET us == Units(ret.val)
          IN  /\ Flatten(us) = ret.arg \o EOW
              /\ EndsWith(us[Len(us)], EOW)
              /\ \A k \in DOMAIN us :
                    CountSub(us[k], EOW) = IF k = Len(us) THEN 1 ELSE 0

(* C10, amended: the concatenation of the Word's symbols always equals
   token + '</w>' and the last symbol always ends with the marker; the units of
   the value returned concatenate to token + '</w>'; and for a token that does
   not itself contain the characters '</w>' the marker occurs only as the
   suffix of the last unit. *)
C10_ConcatenationIsTokenPlusMarker ==
    /\ pc \in {"loop", "join"} =>
          /\ Flatten(word) = token \o EOW
          /\ EndsWith(word[Len(word)], EOW)
    /\ (ret.op = "bpe" /\ ret.err = "none" /\ ret.arg \notin {SOT, EOT}) =>
          LET us == Units(ret.val)
          IN  /\ Flatten(us) = ret.arg \o EOW
              /\ EndsWith(us[Len(us)], EOW)
              /\ CountSub(ret.arg, EOW) = 0 =>
                    \A k \in DOMAIN us :
                        CountSub(us[k], EOW) = IF k = Len(us) THEN 1 ELSE 0

C10_Witness ==
    /\ ret.op = "bpe" /\ ret.how = "merged"
    /\ CountSub(ret.arg, EOW) = 0
    /\ Len(Units(ret.val)) < Len(ret.arg)

====
